---- MODULE Spec2Model ----
(***************************************************************************)
(* Model of the retrieval pipeline of rag_service:                         *)
(*   - the streaming query (api/query.py generate_response driving the     *)
(*     generator core/rag_chain.py RAGChain.query),                        *)
(*   - ingestion and deletion on the two vector-store backends             *)
(*     (core/vectorizer.py VectorStore on Chroma, core/embeddings.py       *)
(*     Embeddings.embed_to_milvus on vector/dbs/milvus.py MilvusClient).   *)
(*   - the upload of files (api/upload.py upload_files),                   *)
(*   - the conversational query (api/query.py query_with_history).         *)
(***************************************************************************)
EXTENDS Integers, Sequences, FiniteSets, TLC

VARIABLES
    vector_db,   \* settings.vector_db: which backend the process is configured for
    question,    \* request.question of the streaming query
    pc,          \* position of generate_response / RAGChain.query
    stream,      \* the server-sent events written to the client so far
    yielded,     \* the items RAGChain.query has yielded so far
    searched,    \* state of the collection when the backend answered the search
    returned,    \* the hits the backend returned to the running query, in its order
    docs,        \* retrieved_docs of the running query
    prompt,      \* formatted_prompt, the prompt handed to the completion service
    produced,    \* the fragments the completion service has produced so far
    llm_calls,   \* number of requests made to the completion service
    failure,     \* the step of the running query that raised ("none" when no step has)
    chroma,      \* the records of the Chroma collection (vector_store.collection)
    milvus,      \* Milvus collections: collection name -> records, or NoCollection
    embed_calls, \* sizes of the batches handed to the embedding service by the last ingest
    last,        \* the last store operation: its arguments, its result, the store before it
    current,     \* filename -> the content last ingested successfully and still stored
    nops,        \* number of store operations so far
    conv,        \* the conversational query: its arguments, the call it makes, its result
    plain,       \* the plain query (POST /query): its request and its response
    prompt_template, \* RAGChain.prompt_template, the stored template
    template,    \* the template update (POST /query/prompt): its request and its response
    server,      \* one collection as the Milvus server holds it (concurrent callers)
    callers,     \* writer -> its position in MilvusClient.upsert and what it saw
    dropper,     \* the caller of delete_collection / delete_all_collection
    llm,         \* RAGChain.llm of the shared rag_chain: the model it was built for
    queries,     \* concurrent streaming query -> its position, model and fragments
    splitter,    \* text_splitter.split_text on a text without separators, step by step
    pager        \* MilvusClient.query: its locals and the requests it has made

vars == <<vector_db, question, pc, stream, yielded, searched, returned, docs, prompt, produced,
          llm_calls, failure, chroma, milvus, embed_calls, last, current, nops, conv,
          plain, prompt_template, template, server, callers, dropper, llm, queries,
          splitter, pager>>

queryVars ==
    <<question, pc, stream, yielded, searched, returned, docs, prompt, produced, llm_calls,
      failure>>
storeVars == <<chroma, milvus, embed_calls, last, current, nops>>
apiVars == <<plain, prompt_template, template>>
\* the variables of the other endpoints, which the streaming query, the store
\* operations, the upload and the conversational query leave alone
raceVars == <<server, callers, dropper>>
\* the variables of the concurrent scenarios
concurrentVars == <<llm, queries>>
scenarioVars == <<raceVars, concurrentVars, splitter, pager>>
otherVars == <<apiVars, scenarioVars>>

\* a step of the streaming query leaves the configuration and the store alone
QueryFrame ==
    UNCHANGED <<vector_db, chroma, milvus, embed_calls, last, current, nops, conv,
                otherVars>>
\* a store operation leaves the configuration and the running query alone
StoreFrame ==
    UNCHANGED <<vector_db, question, pc, stream, yielded, searched, returned, docs, prompt,
                produced, llm_calls, failure, conv, otherVars>>

(***************************************************************************)
(* Bounds of the model.                                                    *)
(***************************************************************************)
MaxHits == 2       \* hits a backend search returns
MaxFrags == 3      \* fragments the completion service produces
MaxOps == 3        \* store operations in one behaviour
\* Sub-batch size of embed_to_milvus. The source uses 1000 (embeddings.py:60-61);
\* the model scales it down so that a document of three chunks spans more
\* than one sub-batch.
SubBatch == 2

Backends == {"milvus", "chroma"}

(***************************************************************************)
(* Exact rationals n/d (d > 0) for distances and similarity scores.        *)
(***************************************************************************)
Rat(n, d) == [n |-> n, d |-> d]
RatPlusOne(r) == Rat(r.n + r.d, r.d)
OneMinus(r) == Rat(r.d - r.n, r.d)
RatDiv(r, k) == Rat(r.n, r.d * k)
RatLeq(r, s) == r.n * s.d <= s.n * r.d
InUnitInterval(r) == r.n >= 0 /\ r.n <= r.d

\* Raw distances are multiples of 1/DistDen.
DistDen == 2
\* Milvus (COSINE / IP metric): raw score in [-1, 1].
MilvusDistances == {Rat(k, DistDen) : k \in (0 - DistDen)..DistDen}
\* Chroma (hnsw:space = cosine): cosine distance 1 - cos, in [0, 2].
ChromaDistances == {Rat(k, DistDen) : k \in 0..(2 * DistDen)}

RawDistances(db) == IF db = "milvus" THEN MilvusDistances ELSE ChromaDistances

Filenames == {"a.txt", "b.txt"}

None == "None"

\* the questions of a request: a question, and a whitespace-only one
Questions == {"q", " "}
\* `not s.strip()`
IsBlankStringOnlyEmpty(str) == str = ""

IsBlankString(str) == str \in {"", " "}
Texts == {"x", "y"}

\* A hit as the backend returns it.
RawHits(db) == [text : Texts, filename : {"a.txt"}, distance : RawDistances(db)]

\* The order in which a backend returns the hits of one query vector, nearest
\* first: Milvus (milvus.py 203-209, client.search) by descending score,
\* Chroma (vectorizer.py 171-176, collection.query) by ascending distance.
BackendOrdered(db, found) ==
    \A i \in 1..Len(found) : \A j \in (i + 1)..Len(found) :
        IF db = "milvus" THEN RatLeq(found[j].distance, found[i].distance)
        ELSE RatLeq(found[i].distance, found[j].distance)

SeqsUpTo(S, n) == UNION {[1..k -> S] : k \in 0..n}

(***************************************************************************)
(* Retrieval.                                                              *)
(***************************************************************************)
\* MilvusClient._result_to_search_result: (distance + 1.0) / 2.0
MilvusNormalize(d) == RatDiv(RatPlusOne(d), 2)

\* _result_to_search_result applied to the hits of the one query vector
MilvusSearchResult(hits) ==
    [documents |-> << [j \in 1..Len(hits) |-> hits[j].text] >>,
     metadatas |-> << [j \in 1..Len(hits) |-> [filename |-> hits[j].filename]] >>,
     distances |-> << [j \in 1..Len(hits) |-> MilvusNormalize(hits[j].distance)] >>]

\* RAGChain.query, milvus branch: similarity_score = distances[i][j] / 1000
MilvusScore(dist) == RatDiv(dist, 1000)

\* RAGChain.query lines 96-116 for the single query vector (i = 0)
MilvusRetrievedDocs(res) ==
    [j \in 1..Len(res.documents[1]) |->
        [content |-> res.documents[1][j],
         metadata |-> res.metadatas[1][j],
         similarity_score |-> MilvusScore(res.distances[1][j]),
         rank |-> j]]

\* VectorStore.search: 'similarity_score': 1 - distance
ChromaScore(distance) == OneMinus(distance)

\* VectorStore.search lines 179-194
ChromaFormattedResultsZeroBased(hits) ==
    [i \in 1..Len(hits) |->
        [content |-> hits[i].text,
         metadata |-> [filename |-> hits[i].filename],
         similarity_score |-> ChromaScore(hits[i].distance),
         rank |-> i - 1]]

ChromaFormattedResults(hits) ==
    [i \in 1..Len(hits) |->
        [content |-> hits[i].text,
         metadata |-> [filename |-> hits[i].filename],
         similarity_score |-> ChromaScore(hits[i].distance),
         rank |-> i]]

\* retrieved_docs of RAGChain.query for the hits the backend returned
RetrievedDocs(db, hits) ==
    IF db = "milvus" THEN MilvusRetrievedDocs(MilvusSearchResult(hits))
    ELSE ChromaFormattedResults(hits)

\* RAGChain.query lines 138-150: one source_info per retrieved doc
SourcesWithoutLast(rdocs) ==
    [i \in 1..(Len(rdocs) - 1) |->
        [rank |-> rdocs[i].rank,
         filename |-> rdocs[i].metadata.filename,
         similarity_score |-> rdocs[i].similarity_score,
         content_preview |-> rdocs[i].content]]

Sources(rdocs) ==
    [i \in 1..Len(rdocs) |->
        [rank |-> rdocs[i].rank,
         filename |-> rdocs[i].metadata.filename,
         similarity_score |-> rdocs[i].similarity_score,
         content_preview |-> rdocs[i].content]]

(***************************************************************************)
(* Items RAGChain.query yields, and the events generate_response writes.   *)
(***************************************************************************)
SourcesItem(rdocs) == [type |-> "sources", data |-> Sources(rdocs)]
ChunkItem(text) == [type |-> "chunk", data |-> text]
CompleteItem(rdocs) == [type |-> "complete", data |-> Len(rdocs)]
\* the dict yielded by the except branch of RAGChain.query: it has no 'type' key
ErrorDict == [type |-> "absent", data |-> "error"]

StatusEvent == [type |-> "status"]
ErrorEvent == [type |-> "error"]

\* generate_response lines 63-69: what is written for one yielded item
ForwardDropsChunk(item) ==
    IF item.type = "sources" THEN << [type |-> "sources", sources |-> item.data] >>
    ELSE IF item.type = "complete"
         THEN << [type |-> "complete", retrieved_chunks |-> item.data] >>
    ELSE << >>

ForwardDropsComplete(item) ==
    IF item.type = "sources" THEN << [type |-> "sources", sources |-> item.data] >>
    ELSE IF item.type = "chunk" THEN << [type |-> "answer", answer |-> item.data] >>
    ELSE << >>

Forward(item) ==
    IF item.type = "sources" THEN << [type |-> "sources", sources |-> item.data] >>
    ELSE IF item.type = "chunk" THEN << [type |-> "answer", answer |-> item.data] >>
    ELSE IF item.type = "complete"
         THEN << [type |-> "complete", retrieved_chunks |-> item.data] >>
    ELSE << >>

(***************************************************************************)
(* The streaming query: generate_response iterating RAGChain.query.        *)
(* pc: "idle"      before the status event,                                *)
(*     "call"      status written, the generator not yet started,          *)
(*     "sources"   the generator is suspended at `yield sources`,          *)
(*     "generating" the generator is inside `for chunk in llm.stream(..)`, *)
(*     "done"      the response body is finished.                          *)
(***************************************************************************)
Fragments == {"", "Hel", "lo"}

\* the generator yields `item` and generate_response writes what it maps to
Yield(item) ==
    /\ yielded' = Append(yielded, item)
    /\ stream' = stream \o Forward(item)

\* query_documents_stream lines 48-49: HTTP 400 for a question that is empty
\* after strip(); generate_response is not created
RejectEmptyQuestion ==
    /\ pc = "idle"
    /\ \E asked \in Questions :
          /\ IsBlankString(asked)
          /\ question' = asked
    /\ pc' = "rejected"
    /\ UNCHANGED <<stream, yielded, searched, returned, docs, prompt, produced, llm_calls,
                   failure>>
    /\ QueryFrame

\* generate_response line 54
EmitStatus ==
    /\ pc = "idle"
    /\ \E asked \in Questions :
          /\ ~IsBlankString(asked)
          /\ question' = asked
    /\ stream' = Append(stream, StatusEvent)
    /\ pc' = "call"
    /\ UNCHANGED <<yielded, searched, returned, docs, produced, llm_calls, failure>>
    /\ UNCHANGED prompt
    /\ QueryFrame

\* generate_response lines 70-72: an exception that reaches the handler
HandlerExceptThenComplete ==
    /\ stream' = stream \o <<ErrorEvent, [type |-> "complete", retrieved_chunks |-> 0]>>
    /\ pc' = "done"

HandlerExcept ==
    /\ stream' = Append(stream, ErrorEvent)
    /\ pc' = "done"

\* RAGChain.query line 78: ChatOllama(model=...) raises, outside the try block
\* (request.model may be null), so the exception leaves the generator.
LlmInitRaises ==
    /\ pc = "call"
    /\ failure' = "llm_init"
    /\ HandlerExcept
    /\ UNCHANGED <<yielded, searched, returned, docs, produced, llm_calls>>
    /\ UNCHANGED <<question, prompt>>
    /\ QueryFrame

\* RAGChain.query lines 179-188: the except branch yields a dict with no
\* 'type'; generate_response writes nothing for it and the generator ends.
QueryExcept(step) ==
    /\ failure' = step
    /\ Yield(ErrorDict)
    /\ pc' = "done"

\* lines 89-95: embed_query raises, or the server cannot be reached by
\* milvus_client.search (milvus branch)
RetrievalRaisesMilvus ==
    /\ pc = "call"
    /\ vector_db = "milvus"
    /\ QueryExcept("retrieval")
    /\ UNCHANGED <<searched, returned, docs, produced, llm_calls>>
    /\ UNCHANGED <<question, prompt>>
    /\ QueryFrame

\* lines 91-95 on a collection the server does not have: MilvusClient.search
\* (milvus.py 203-209) passes the name to client.search without a
\* has_collection test, pymilvus raises MilvusException (collection not
\* found), and the except branch of RAGChain.query takes it.
SearchAbsentMilvus ==
    /\ pc = "call"
    /\ vector_db = "milvus"
    /\ searched' = "absent"
    /\ QueryExcept("retrieval")
    /\ UNCHANGED <<returned, docs, produced, llm_calls>>
    /\ UNCHANGED <<question, prompt>>
    /\ QueryFrame

\* vectorizer.py lines 196-198: embed_query raises or the Chroma client fails;
\* VectorStore.search swallows the exception and returns [], and
\* RAGChain.query then takes the `not retrieved_docs` return.
RetrievalRaisesChroma ==
    /\ pc = "call"
    /\ vector_db = "chroma"
    /\ failure' = "retrieval"
    /\ docs' = << >>
    /\ pc' = "done"
    /\ UNCHANGED <<stream, yielded, searched, returned, produced, llm_calls>>
    /\ UNCHANGED <<question, prompt>>
    /\ QueryFrame

\* lines 125-132: `return {...}` inside a generator ends it without yielding
ReturnFallback ==
    /\ UNCHANGED <<yielded, stream>>
    /\ pc' = "done"

\* The collections a search answers with no hit: an empty one, and on Chroma
\* also one that is gone (collection.query raises, VectorStore.search lines
\* 196-198 turn the exception into []).
HitlessCollections(db) == IF db = "milvus" THEN {"empty"} ELSE {"absent", "empty"}

\* lines 85-132 with a search that returns no hit
RetrieveNothing ==
    /\ pc = "call"
    /\ \E s \in HitlessCollections(vector_db) : searched' = s
    /\ returned' = << >>
    /\ docs' = RetrievedDocs(vector_db, << >>)
    /\ ReturnFallback
    /\ UNCHANGED <<produced, llm_calls, failure>>
    /\ UNCHANGED <<question, prompt>>
    /\ QueryFrame

\* lines 85-155 with a search that returns at least one hit
RetrieveSome ==
    /\ pc = "call"
    /\ \E found \in SeqsUpTo(RawHits(vector_db), MaxHits) :
          /\ Len(found) > 0
          /\ BackendOrdered(vector_db, found)
          /\ returned' = found
          /\ docs' = RetrievedDocs(vector_db, found)
          /\ Yield(SourcesItem(RetrievedDocs(vector_db, found)))
    /\ searched' = "populated"
    /\ pc' = "sources"
    /\ UNCHANGED <<produced, llm_calls, failure>>
    /\ UNCHANGED <<question, prompt>>
    /\ QueryFrame

\* lines 157-160: prompt_template.format raises (a replaced template that
\* names an unknown variable)
FormatRaises ==
    /\ pc = "sources"
    /\ QueryExcept("format")
    /\ UNCHANGED <<searched, returned, docs, produced, llm_calls>>
    /\ UNCHANGED <<question, prompt>>
    /\ QueryFrame

\* lines 135-152: context_parts, one labelled part per retrieved doc
\* (f"文档片段 {i+1}:\n{doc['content']}\n"), joined in order
Context(rdocs) ==
    [i \in 1..Len(rdocs) |-> [label |-> i, content |-> rdocs[i].content]]

\* lines 157-160: prompt_template.format(context=context, question=question)
FormatPrompt(tmpl, context, asked) ==
    [template |-> tmpl, context |-> context, question |-> asked]

NoPrompt == [template |-> "", context |-> << >>, question |-> ""]

\* lines 157-161: the prompt is formatted and the request to the completion
\* service is made
StartGeneration ==
    /\ pc = "sources"
    /\ prompt' = FormatPrompt(prompt_template, Context(docs), question)
    /\ UNCHANGED question
    /\ llm_calls' = llm_calls + 1
    /\ pc' = "generating"
    /\ UNCHANGED <<stream, yielded, searched, returned, docs, produced, failure>>
    /\ QueryFrame

\* lines 161-165, one iteration: `if text:` forwards non-empty fragments only
FragmentItems(text) == IF text # "" THEN <<ChunkItem(text)>> ELSE << >>

NextFragment ==
    /\ pc = "generating"
    /\ Len(produced) < MaxFrags
    /\ \E text \in Fragments :
          /\ produced' = Append(produced, text)
          /\ yielded' = yielded \o FragmentItems(text)
          /\ stream' = stream \o
                (IF FragmentItems(text) = << >> THEN << >> ELSE Forward(FragmentItems(text)[1]))
    /\ UNCHANGED <<pc, searched, returned, docs, llm_calls, failure>>
    /\ UNCHANGED <<question, prompt>>
    /\ QueryFrame

\* line 161: llm.stream raises after the fragments produced so far
GenerationRaises ==
    /\ pc = "generating"
    /\ QueryExcept("generation")
    /\ UNCHANGED <<searched, returned, docs, produced, llm_calls>>
    /\ UNCHANGED <<question, prompt>>
    /\ QueryFrame

\* lines 168-177: the token stream ends, `complete` is yielded
GenerationCompletes ==
    /\ pc = "generating"
    /\ Yield(CompleteItem(docs))
    /\ pc' = "done"
    /\ UNCHANGED <<searched, returned, docs, produced, llm_calls, failure>>
    /\ UNCHANGED <<question, prompt>>
    /\ QueryFrame


\* a collection name that has_collection answers False for
NoCollection == [exists |-> FALSE, records |-> {}]
NoContent == <<"NoContent">>
NoOp == [op |-> "none"]

(***************************************************************************)
(* Documents, chunking and embedding.                                      *)
(* A document's text is a sequence of segments; a segment is either        *)
(* whitespace (Blank) or a piece of text that the splitter turns into one  *)
(* chunk.                                                                  *)
(***************************************************************************)
Blank == " "
\* The documents ingested: the empty and the whitespace-only text, and texts of
\* one to four chunks (three and four chunks span two sub-batches).
Contents ==
    {<< >>, <<Blank>>, <<Blank, "x">>, <<"x">>, <<"y">>, <<"x", "y">>, <<"y", "x">>,
     <<"x", "x", "y">>, <<"y", "x", "x">>, <<"x", "y", "y", "x">>}

\* `not content.strip()`
StripEmpty(content) == \A i \in 1..Len(content) : content[i] = Blank

\* RecursiveCharacterTextSplitter.split_text: the non-blank pieces, in order
NonBlank(t) == t # Blank
split_text(content) == SelectSeq(content, NonBlank)

\* OllamaEmbeddings.embed_documents: one vector per text, in input order
Embed(text) == <<"vec", text>>
embed_documents(texts) == [i \in 1..Len(texts) |-> Embed(texts[i])]

Min(a, b) == IF a <= b THEN a ELSE b

\* _generate_chunk_id: md5 of f"{filename}_{chunk_index}" (md5 taken as
\* collision-free; the formatted string determines filename and index)
generate_chunk_id(filename, chunk_index) == <<"md5", filename, "_", chunk_index>>

\* chunk_metadata of add_document / embed_to_milvus
ChunkMetadata(filename, i, n) ==
    [filename |-> filename, chunk_index |-> i, chunk_count |-> n]

Ids(coll) == {r.id : r \in coll}

\* The dict an ingestion returns (add_document lines 81-85, 91-95, 137-141,
\* 145-149; embed_to_milvus lines 44-48, 52-56, 94-98, 102-106): empty content
\* or no chunk, an exception, or n chunks added.
IngestResultAcceptsEmpty(empty, raised, n) ==
    IF raised THEN [success |-> FALSE, chunks_added |-> 0]
    ELSE [success |-> TRUE, chunks_added |-> IF empty THEN 0 ELSE n]

IngestResult(empty, raised, n) ==
    IF empty \/ raised THEN [success |-> FALSE, chunks_added |-> 0]
    ELSE [success |-> TRUE, chunks_added |-> n]
OfFile(coll, filename) == {r \in coll : r.metadata.filename = filename}

(***************************************************************************)
(* Chroma backend: VectorStore (core/vectorizer.py).                       *)
(***************************************************************************)
\* add_document lines 101-125: ids and metadata for zip(chunks, chunk_embeddings)
ChromaRecordsUuid(filename, chunks, embeddings) ==
    [k \in 1..Min(Len(chunks), Len(embeddings)) |->
        [id |-> <<"uuid4", nops, k>>,
         text |-> chunks[k],
         vector |-> embeddings[k],
         metadata |-> ChunkMetadata(filename, k - 1, Len(chunks))]]

ChromaRecords(filename, chunks, embeddings) ==
    [k \in 1..Min(Len(chunks), Len(embeddings)) |->
        [id |-> generate_chunk_id(filename, k - 1),
         text |-> chunks[k],
         vector |-> embeddings[k],
         metadata |-> ChunkMetadata(filename, k - 1, Len(chunks))]]

\* chromadb Collection.add: a record whose id is already in the collection
\* is ignored, the others are inserted
CollectionAdd(coll, items) ==
    coll \cup {items[k] : k \in {j \in 1..Len(items) : items[j].id \notin Ids(coll)}}

Range(f) == {f[k] : k \in DOMAIN f}

\* VectorStore.add_document; fault: embed_documents or collection.add raises
add_document ==
    /\ vector_db = "chroma"
    /\ nops < MaxOps
    /\ \E filename \in Filenames, content \in Contents, fault \in BOOLEAN :
          LET chunks == split_text(content)
              empty == StripEmpty(content) \/ chunks = << >>
              items == ChromaRecords(filename, chunks, embed_documents(chunks))
              ok == ~empty /\ ~fault
          IN  /\ chroma' = IF ok THEN CollectionAdd(chroma, items) ELSE chroma
              /\ embed_calls' = IF empty THEN << >> ELSE <<Len(chunks)>>
              /\ last' = [op |-> "add_document",
                          filename |-> filename,
                          content |-> content,
                          written |-> IF ok THEN Range(items) ELSE {},
                          success |-> IngestResult(empty, fault, Len(chunks)).success,
                          chunks_added |->
                             IngestResult(empty, fault, Len(chunks)).chunks_added,
                          chunk_ids |-> IF ok THEN [k \in 1..Len(items) |-> items[k].id]
                                        ELSE << >>,
                          repeat |-> ~empty /\ current[filename] = content,
                          before |-> chroma]
              /\ current' = IF ok THEN [current EXCEPT ![filename] = content] ELSE current
    /\ nops' = nops + 1
    /\ UNCHANGED milvus
    /\ StoreFrame

\* delete_document lines 204-207: collection.get(where={"filename": {"$eq": filename}})
DocumentIdsAll(coll, filename) == Ids(coll)

DocumentIds(coll, filename) == Ids(OfFile(coll, filename))

\* chromadb Collection.delete(ids=...)
CollectionDelete(coll, ids) == {r \in coll : r.id \notin ids}

\* VectorStore.delete_document; fault: collection.get or collection.delete raises
delete_document ==
    /\ vector_db = "chroma"
    /\ nops < MaxOps
    /\ \E filename \in Filenames, fault \in BOOLEAN :
          LET ids == DocumentIds(chroma, filename)
              ok == ~fault /\ ids # {}
          IN  /\ chroma' = IF ok THEN CollectionDelete(chroma, ids) ELSE chroma
              /\ last' = [op |-> "delete_document",
                          filename |-> filename,
                          success |-> ok,
                          raised |-> fault,
                          deleted_count |-> IF ok THEN Cardinality(ids) ELSE 0,
                          before |-> chroma]
              /\ current' = IF ok THEN [current EXCEPT ![filename] = NoContent] ELSE current
    /\ nops' = nops + 1
    /\ UNCHANGED <<milvus, embed_calls>>
    /\ StoreFrame

(***************************************************************************)
(* Milvus backend: Embeddings.embed_to_milvus (core/embeddings.py) on      *)
(* MilvusClient (vector/dbs/milvus.py).                                    *)
(***************************************************************************)
\* embed_to_milvus line 91: "rag_service" + md5(f"{filename}_0")
CollectionName(filename) == <<"rag_service", generate_chunk_id(filename, 0)>>
CollectionNames == {CollectionName(f) : f \in Filenames}

\* pymilvus upsert: a record with the primary key of an item is replaced by it
UpsertRecords(coll, items) ==
    {r \in coll : r.id \notin {items[k].id : k \in DOMAIN items}} \cup Range(items)

\* pymilvus insert: the items are appended
InsertRecords(coll, items) == coll \cup Range(items)

\* MilvusClient.upsert: create the collection when absent, then client.upsert
MilvusClientInsert(colls, name, items) ==
    [colls EXCEPT ![name] =
        [exists |-> TRUE, records |-> InsertRecords(colls[name].records, items)]]

MilvusClientUpsert(colls, name, items) ==
    [colls EXCEPT ![name] =
        [exists |-> TRUE, records |-> UpsertRecords(colls[name].records, items)]]

\* embed_to_milvus line 60: range(0, total, 1000)
BatchStarts(total) == [b \in 1..((total + SubBatch - 1) \div SubBatch) |-> (b - 1) * SubBatch]

\* line 61: chunks[i:i + 1000]
BatchChunks(chunks, i) == SubSeq(chunks, i + 1, Min(i + SubBatch, Len(chunks)))

\* lines 62-89: the docs of the sub-batch that starts at i. The inner loop
\* enumerates zip(chunks, chunk_embeddings): the texts come from the start of
\* the whole chunk list, the vectors from the sub-batch, and the index is
\* idx + i*1000.
BatchDocs(filename, chunks, i) ==
    LET chunk_embeddings == embed_documents(BatchChunks(chunks, i))
    IN  [k \in 1..Min(Len(chunks), Len(chunk_embeddings)) |->
            [id |-> generate_chunk_id(filename, (k - 1) + i * SubBatch),
             text |-> chunks[k],
             vector |-> chunk_embeddings[k],
             metadata |-> ChunkMetadata(filename, (k - 1) + i * SubBatch, Len(chunks))]]

\* lines 60-92: the collections after the first n sub-batches were upserted
RECURSIVE AfterBatches(_, _, _, _)
AfterBatches(colls, filename, chunks, n) ==
    IF n = 0 THEN colls
    ELSE MilvusClientUpsert(AfterBatches(colls, filename, chunks, n - 1),
                            CollectionName(filename),
                            BatchDocs(filename, chunks, BatchStarts(Len(chunks))[n]))

\* the docs handed to upsert by the first n sub-batches
WrittenByBatches(filename, chunks, n) ==
    UNION {Range(BatchDocs(filename, chunks, BatchStarts(Len(chunks))[b])) : b \in 1..n}

\* Embeddings.embed_to_milvus; failAt = 0: no call raises; failAt = b: the
\* embedding call of sub-batch b was made and it, or the upsert after it, raises
embed_to_milvus ==
    /\ vector_db = "milvus"
    /\ nops < MaxOps
    /\ \E filename \in Filenames, content \in Contents :
          LET chunks == split_text(content)
              empty == StripEmpty(content) \/ chunks = << >>
              starts == BatchStarts(Len(chunks))
          IN  \E failAt \in 0..Len(starts) :
                 LET ok == ~empty /\ failAt = 0
                     done == IF empty THEN 0
                             ELSE IF failAt = 0 THEN Len(starts) ELSE failAt - 1
                     asked == IF empty THEN 0
                              ELSE IF failAt = 0 THEN Len(starts) ELSE failAt
                     lastDocs == BatchDocs(filename, chunks, starts[Len(starts)])
                 IN  /\ milvus' = AfterBatches(milvus, filename, chunks, done)
                     /\ embed_calls' =
                           [b \in 1..asked |-> Len(BatchChunks(chunks, starts[b]))]
                     /\ last' = [op |-> "embed_to_milvus",
                                 filename |-> filename,
                                 content |-> content,
                                 written |-> WrittenByBatches(filename, chunks, done),
                                 success |->
                                    IngestResult(empty, failAt # 0, Len(chunks)).success,
                                 chunks_added |->
                                    IngestResult(empty, failAt # 0, Len(chunks)).chunks_added,
                                 chunk_ids |-> IF ok
                                               THEN [k \in 1..Len(lastDocs) |-> lastDocs[k].id]
                                               ELSE << >>,
                                 repeat |-> ~empty /\ current[filename] = content,
                                 before |-> milvus]
                     /\ current' =
                           IF ok THEN [current EXCEPT ![filename] = content]
                           ELSE IF done > 0 /\ current[filename] # content
                                THEN [current EXCEPT ![filename] = NoContent]
                           ELSE current
    /\ nops' = nops + 1
    /\ UNCHANGED chroma
    /\ StoreFrame

\* MilvusClient.delete_collection: drop_collection, or it raises
delete_collection ==
    /\ vector_db = "milvus"
    /\ nops < MaxOps
    /\ \E filename \in Filenames, fault \in BOOLEAN :
          /\ milvus' = IF fault THEN milvus
                       ELSE [milvus EXCEPT ![CollectionName(filename)] = NoCollection]
          /\ last' = [op |-> "delete_collection",
                      filename |-> filename,
                      success |-> ~fault,
                      deleted_count |-> IF fault THEN 0 ELSE 1,
                      before |-> milvus]
          /\ current' = IF fault THEN current
                        ELSE [current EXCEPT ![filename] = NoContent]
    /\ nops' = nops + 1
    /\ UNCHANGED <<chroma, embed_calls>>
    /\ StoreFrame

\* MilvusClient.delete_all_collection: drops the listed collections one by
\* one; a drop that raises ends the loop with the earlier drops done
delete_all_collection ==
    /\ vector_db = "milvus"
    /\ nops < MaxOps
    /\ \E dropped \in SUBSET {f \in Filenames : milvus[CollectionName(f)].exists} :
          /\ milvus' = [c \in CollectionNames |->
                          IF \E f \in dropped : c = CollectionName(f)
                          THEN NoCollection ELSE milvus[c]]
          /\ last' = [op |-> "delete_all_collection",
                      success |->
                         dropped = {f \in Filenames : milvus[CollectionName(f)].exists},
                      before |-> milvus]
          /\ current' = [f \in Filenames |-> IF f \in dropped THEN NoContent ELSE current[f]]
    /\ nops' = nops + 1
    /\ UNCHANGED <<chroma, embed_calls>>
    /\ StoreFrame

(***************************************************************************)
(* Bulk delete: api/upload.py delete_documents, on the Chroma store        *)
(* (vector_store), whatever backend is configured.                         *)
(***************************************************************************)
\* VectorStore.delete_document as a function of the collection; raises: the
\* call of collection.get or collection.delete raises
DeleteDocumentResult(coll, filename, raises) ==
    LET ids == DocumentIds(coll, filename)
        ok == ~raises /\ ids # {}
    IN  [chroma |-> IF ok THEN CollectionDelete(coll, ids) ELSE coll,
         success |-> ok,
         deleted_count |-> IF ok THEN Cardinality(ids) ELSE 0]

\* delete_documents lines 231-240: the loop over request.document_ids;
\* raising is the set of positions whose backend call raises
RECURSIVE DeleteEach(_, _, _, _)
DeleteEach(coll, names, raising, n) ==
    IF n = 0
    THEN [chroma |-> coll, total_deleted |-> 0, failed_deletions |-> << >>]
    ELSE LET acc == DeleteEach(coll, names, raising, n - 1)
             res == DeleteDocumentResult(acc.chroma, names[n], n \in raising)
         IN  [chroma |-> res.chroma,
              total_deleted |-> acc.total_deleted + res.deleted_count,
              failed_deletions |-> IF res.success
                                   THEN acc.failed_deletions
                                   ELSE Append(acc.failed_deletions, names[n])]

\* lines 247-248: status of the list branch
DeleteStatusAlwaysSuccess(failed_deletions) == "success"

DeleteStatus(failed_deletions) ==
    IF failed_deletions = << >> THEN "success" ELSE "partial"

\* the requests: delete_all, or a list of filenames (empty: neither is given)
MaxDeleteList == 2
DeleteRequests ==
    {[delete_all |-> TRUE, document_ids |-> << >>]}
        \cup {[delete_all |-> FALSE, document_ids |-> names] :
                 names \in SeqsUpTo(Filenames, MaxDeleteList)}

\* line 211: vector_store.collection.delete() with no ids and no filter.
\* chromadb raises ValueError for it (a delete needs ids, where or
\* where_document); releases that accept the call remove every record.
CollectionDeleteOutcomes == {"raises", "removes_all"}

\* lines 213-216: create_collection(name=vector_store.collection.name, ...)
\* names the collection that exists (collection.delete never removes the
\* collection itself), and create_collection raises for an existing name.
CreateCollectionRaises(existing) == existing

\* lines 210-223: the delete_all branch answers "success" if neither call
\* raised and HTTP 500 otherwise
DeleteAllStatusIgnoresFailure(delete_raises, create_raises) == "success"

DeleteAllStatus(delete_raises, create_raises) ==
    IF delete_raises \/ create_raises THEN "error" ELSE "success"

\* delete_documents (POST /upload/documents/delete)
delete_documents ==
    /\ nops < MaxOps
    /\ \E request \in DeleteRequests, outcome \in CollectionDeleteOutcomes,
          raising \in SUBSET (1..MaxDeleteList) :
          LET names == request.document_ids
              each == DeleteEach(chroma, names, raising, Len(names))
              delete_raises == outcome = "raises"
              create_raises == ~delete_raises /\ CreateCollectionRaises(TRUE)
              all_status == DeleteAllStatus(delete_raises, create_raises)
          IN  \* each branch reads only its own input
              /\ request.delete_all => raising = {}
              /\ ~request.delete_all =>
                    (outcome = "raises" /\ raising \subseteq 1..Len(names))
              /\ chroma' = IF request.delete_all
                            THEN IF delete_raises THEN chroma ELSE {}
                            ELSE each.chroma
              /\ last' =
                    IF request.delete_all
                    THEN [op |-> "delete_documents", request |-> request,
                          http_status |-> IF all_status = "success" THEN 200 ELSE 500,
                          status |-> all_status,
                          deleted_count |-> -1,
                          failed_deletions |-> << >>,
                          handle_replaced |-> all_status = "success",
                          before |-> chroma]
                    ELSE IF names = << >>
                    THEN [op |-> "delete_documents", request |-> request,
                          http_status |-> 400, status |-> "error",
                          deleted_count |-> 0, failed_deletions |-> << >>,
                          handle_replaced |-> FALSE,
                          before |-> chroma]
                    ELSE [op |-> "delete_documents", request |-> request,
                          http_status |-> 200,
                          status |-> DeleteStatus(each.failed_deletions),
                          deleted_count |-> each.total_deleted,
                          failed_deletions |-> each.failed_deletions,
                          handle_replaced |-> FALSE,
                          before |-> chroma]
              /\ current' = [f \in Filenames |->
                               IF vector_db = "chroma" /\ OfFile(chroma', f) = {}
                               THEN NoContent ELSE current[f]]
    /\ nops' = nops + 1
    /\ UNCHANGED <<milvus, embed_calls>>
    /\ StoreFrame

(***************************************************************************)
(* Upload: api/upload.py upload_files, which parses each saved file and    *)
(* ingests it with vector_store.add_document (the Chroma store, whatever   *)
(* backend is configured).                                                 *)
(* A file of a request carries what happens to it:                         *)
(*   "ok"          it is saved and parsed, and the embedding service and   *)
(*                 the store work,                                         *)
(*   "parse_fail"  parse_document returns success = False,                 *)
(*   "store_fail"  embed_documents or collection.add raises,               *)
(*   "bad_type"    validate_file_type rejects its name,                    *)
(*   "too_large"   validate_file_size rejects its size,                    *)
(*   "save_fail"   save_uploaded_file cannot write it.                     *)
(***************************************************************************)
UploadFiles ==
    [filename : Filenames, kind : {"ok"}, content : {<< >>, <<"x">>, <<"x", "y">>}]
    \cup [filename : Filenames,
          kind : {"parse_fail", "store_fail", "bad_type", "too_large", "save_fail"},
          content : {<<"x">>}]

\* The requests: up to one file per name (the upload directory then holds no
\* file of the same name and save_uploaded_file keeps the names).
UploadRequests ==
    {files \in SeqsUpTo(UploadFiles, Cardinality(Filenames)) :
        \A i \in 1..Len(files) : \A j \in (i + 1)..Len(files) :
            files[i].filename # files[j].filename}

\* upload_files lines 28-43: a file the validation loop raises HTTP 400 for
IsInvalid(file) == file.kind \in {"bad_type", "too_large"}

\* save_multiple_files (file_utils.py 69-84): the files in saved_files
IsSaved(file) == file.kind # "save_fail"

NoUpload(coll) ==
    [chroma |-> coll, processed_files |-> << >>, failed_files |-> << >>,
     total_chunks |-> 0, embed_calls |-> << >>]

\* upload_files lines 60-90, one iteration of the loop over saved_files
ProcessFileStopsAfterFailure(acc, file) ==
    LET chunks == split_text(file.content)
        empty == StripEmpty(file.content) \/ chunks = << >>
        fault == file.kind = "store_fail"
        vector_result == IngestResult(empty, fault, Len(chunks))
        items == ChromaRecords(file.filename, chunks, embed_documents(chunks))
    IN  IF acc.failed_files # << >> THEN acc
        ELSE IF file.kind = "parse_fail"
        THEN [acc EXCEPT !.failed_files = Append(@, file.filename)]
        ELSE IF vector_result.success
        THEN [acc EXCEPT !.chroma = CollectionAdd(@, items),
                         !.processed_files = Append(@, file.filename),
                         !.total_chunks = @ + vector_result.chunks_added,
                         !.embed_calls = Append(@, Len(chunks))]
        ELSE [acc EXCEPT !.failed_files = Append(@, file.filename),
                         !.embed_calls = IF empty THEN @ ELSE Append(@, Len(chunks))]

ProcessFile(acc, file) ==
    LET chunks == split_text(file.content)
        empty == StripEmpty(file.content) \/ chunks = << >>
        fault == file.kind = "store_fail"
        vector_result == IngestResult(empty, fault, Len(chunks))
        items == ChromaRecords(file.filename, chunks, embed_documents(chunks))
    IN  IF file.kind = "parse_fail"
        THEN [acc EXCEPT !.failed_files = Append(@, file.filename)]
        ELSE IF vector_result.success
        THEN [acc EXCEPT !.chroma = CollectionAdd(@, items),
                         !.processed_files = Append(@, file.filename),
                         !.total_chunks = @ + vector_result.chunks_added,
                         !.embed_calls = Append(@, Len(chunks))]
        ELSE [acc EXCEPT !.failed_files = Append(@, file.filename),
                         !.embed_calls = IF empty THEN @ ELSE Append(@, Len(chunks))]

\* lines 54-90: the loop over the first n saved files, from the store coll
RECURSIVE ProcessSaved(_, _, _)
ProcessSaved(coll, saved, n) ==
    IF n = 0 THEN NoUpload(coll)
    ELSE ProcessFile(ProcessSaved(coll, saved, n - 1), saved[n])

\* lines 24-52: the status of the requests that process no file
\* (no file, a file that fails validation, no file saved); 200 otherwise
UploadStatus(files) ==
    IF files = << >> THEN 400
    ELSE IF \E i \in 1..Len(files) : IsInvalid(files[i]) THEN 400
    ELSE IF SelectSeq(files, IsSaved) = << >> THEN 500
    ELSE 200

\* upload_files (POST /upload)
upload_files ==
    /\ nops < MaxOps
    /\ \E files \in UploadRequests :
          LET saved == SelectSeq(files, IsSaved)
              out == IF UploadStatus(files) = 200
                     THEN ProcessSaved(chroma, saved, Len(saved))
                     ELSE NoUpload(chroma)
          IN  /\ chroma' = out.chroma
              /\ embed_calls' = out.embed_calls
              /\ last' = [op |-> "upload_files",
                          files |-> files,
                          http_status |-> UploadStatus(files),
                          status |-> IF out.processed_files # << >>
                                     THEN "success" ELSE "failed",
                          file_count |-> Len(out.processed_files),
                          processed_files |-> out.processed_files,
                          failed_files |-> out.failed_files,
                          total_chunks |-> out.total_chunks,
                          before |-> chroma]
              /\ current' =
                    [f \in Filenames |->
                        IF \E i \in 1..Len(saved) :
                              /\ saved[i].filename = f
                              /\ \E k \in 1..Len(out.processed_files) :
                                    out.processed_files[k] = f
                        THEN (CHOOSE file \in Range(saved) : file.filename = f).content
                        ELSE current[f]]
    /\ nops' = nops + 1
    /\ UNCHANGED milvus
    /\ StoreFrame

(***************************************************************************)
(* The conversational query: api/query.py query_with_history calling       *)
(* RAGChain.query_with_conversation_history (core/rag_chain.py).           *)
(* A string is a sequence of pieces; None is the string "None".            *)
(***************************************************************************)
MaxHistory == 4    \* turns in the history of a conversational query

\* the value of a key a turn does not have
Missing == "<missing>"

\* the turns a history is made of; the third has no 'answer' key
Turns ==
    {[question |-> "q1", answer |-> "a1"],
     [question |-> "q2", answer |-> "a2"],
     [question |-> "q3", answer |-> Missing]}

Histories == SeqsUpTo(Turns, MaxHistory)
TopKs == {None, "3"}
FilterMetadatas == {None, "filter"}

\* line 202: 'question' in turn and 'answer' in turn
HasBoth(turn) == turn.question # Missing /\ turn.answer # Missing

\* line 201: history[-3:]
RecentTurnsFirst(history) == SubSeq(history, 1, Min(3, Len(history)))

RecentTurns(history) ==
    SubSeq(history, IF Len(history) > 3 THEN Len(history) - 2 ELSE 1, Len(history))

\* line 203: f"Q: {turn['question']}\nA: {turn['answer']}"
RenderTurn(turn) == <<"Q: ", turn.question, "[newline]A: ", turn.answer>>

\* lines 200-203: context_parts
ContextParts(history) ==
    LET recent == SelectSeq(RecentTurns(history), HasBoth)
    IN  [k \in 1..Len(recent) |-> RenderTurn(recent[k])]

\* line 206: "\n\n".join(context_parts)
RECURSIVE JoinParts(_)
JoinParts(parts) ==
    IF parts = << >> THEN << >>
    ELSE IF Len(parts) = 1 THEN parts[1]
    ELSE parts[1] \o <<"[newline][newline]">> \o JoinParts(Tail(parts))

\* lines 197-207: enhanced_question
EnhancedQuestion(asked, history) ==
    IF history # << >> /\ ContextParts(history) # << >>
    THEN <<"[history header][newline]">> \o JoinParts(ContextParts(history))
            \o <<"[newline][newline][current question]", asked>>
    ELSE <<asked>>

\* RAGChain.query line 75: the parameters as a call binds them
\* (question, collection_name, top_k, filter_metadata, model)
QueryDefaults ==
    [question |-> << >>, collection_name |-> "milvus_test_collection",
     top_k |-> None, filter_metadata |-> None, model |-> None]

\* line 210: self.query(enhanced_question, top_k, filter_metadata), the three
\* arguments taken by position
PositionalQueryCall(a1, a2, a3) ==
    [QueryDefaults EXCEPT !.question = a1, !.collection_name = a2, !.top_k = a3]

\* lines 218-227: the dict returned by the except branch
ConversationErrorResult(asked) ==
    [keys |-> {"question", "answer", "sources", "processing_time",
               "retrieved_chunks", "error"},
     question |-> asked,
     answer |-> "[error message]",
     sources |-> << >>,
     retrieved_chunks |-> 0]

\* RAGChain.query_with_conversation_history. RAGChain.query is a generator
\* function: the call on line 210 returns a generator object and runs none of
\* its body; the item assignment on line 213 raises TypeError on it and the
\* except branch returns the error dict.
query_with_conversation_history(asked, history, top_k, filter_metadata) ==
    [enhanced_question |-> EnhancedQuestion(asked, history),
     call |-> PositionalQueryCall(EnhancedQuestion(asked, history), top_k, filter_metadata),
     result |-> ConversationErrorResult(asked)]

\* query.py lines 109-115: the response body built from the result
ConversationResponse(result) ==
    [keys |-> {"question", "answer", "sources", "processing_time", "retrieved_chunks"},
     question |-> result.question,
     answer |-> result.answer,
     sources |-> result.sources,
     retrieved_chunks |-> result.retrieved_chunks]

NoConversation == [state |-> "idle"]

\* query.py query_with_history (lines 89-121), once
query_with_history ==
    /\ conv.state = "idle"
    /\ \E asked \in Questions, history \in Histories,
          top_k \in TopKs, filter_metadata \in FilterMetadatas :
          LET r == query_with_conversation_history(asked, history, top_k, filter_metadata)
          IN  conv' =
                 IF IsBlankString(asked)
                 THEN [state |-> "done", status |-> 400,
                       question |-> asked, history |-> history,
                       top_k |-> top_k, filter_metadata |-> filter_metadata]
                 ELSE [state |-> "done", status |-> 200,
                       question |-> asked, history |-> history,
                       top_k |-> top_k, filter_metadata |-> filter_metadata,
                       enhanced_question |-> r.enhanced_question,
                       call |-> r.call,
                       result |-> r.result,
                       response |-> ConversationResponse(r.result)]
    /\ UNCHANGED vector_db
    /\ UNCHANGED queryVars
    /\ UNCHANGED storeVars
    /\ UNCHANGED otherVars

(***************************************************************************)
(* The plain query and the template update (api/query.py).                 *)
(***************************************************************************)
NoRequest == [state |-> "idle"]

\* query_documents (lines 17-42). Lines 20-21 answer HTTP 400 to a question
\* that is empty after strip(). Otherwise line 24 calls RAGChain.query, a
\* generator function: the call returns a generator and runs none of its body,
\* result['question'] on line 31 raises TypeError and lines 39-41 answer 500.
query_documents ==
    /\ plain.state = "idle"
    /\ \E asked \in Questions :
          plain' = IF IsBlankString(asked)
                   THEN [state |-> "done", question |-> asked, status |-> 400,
                         query_calls |-> 0]
                   ELSE [state |-> "done", question |-> asked, status |-> 500,
                         query_calls |-> 1]
    /\ UNCHANGED <<vector_db, queryVars, storeVars, conv, prompt_template, template,
                   scenarioVars>>

DefaultTemplate == "default template"
\* the templates of a request: a template, and a whitespace-only one
Templates == {"new template", " "}
\* what RAGChain.update_prompt_template (rag_chain.py 262-282) can do:
\* succeed, raise in PromptTemplate(...) on line 265, or raise in
\* LLMChain(...) on line 271, after the assignment of line 265
TemplateOutcomes == {"updated", "template_raises", "chain_raises"}

\* update_prompt_template (query.py lines 152-169) with
\* RAGChain.update_prompt_template (rag_chain.py 262-282)
update_prompt_template ==
    /\ template.state = "idle"
    /\ \E new_template \in Templates, outcome \in TemplateOutcomes :
          IF IsBlankString(new_template)
          THEN /\ template' = [state |-> "done", new_template |-> new_template,
                               status |-> 400, update_calls |-> 0]
               /\ UNCHANGED prompt_template
          ELSE /\ template' = [state |-> "done", new_template |-> new_template,
                               status |-> IF outcome = "updated" THEN 200 ELSE 500,
                               update_calls |-> 1]
               /\ prompt_template' = IF outcome = "template_raises"
                                     THEN prompt_template
                                     ELSE new_template
    /\ UNCHANGED <<vector_db, queryVars, storeVars, conv, plain, scenarioVars>>

ApiInit ==
    /\ plain = NoRequest
    /\ prompt_template = DefaultTemplate
    /\ template = NoRequest

(***************************************************************************)
(* Concurrent callers of MilvusClient (vector/dbs/milvus.py) on one         *)
(* collection of the server.  MilvusClient holds no lock: each call of      *)
(* self.client is one request to the server, and requests of different      *)
(* callers interleave.                                                      *)
(* server.generation counts the structural changes (creations and drops).   *)
(***************************************************************************)
Writers == {"w1", "w2"}

NoServerCollection == [exists |-> FALSE, generation |-> 0, records |-> {}]

\* what create_collection does when the collection exists by the time the
\* request arrives: the server accepts a repeated creation with the same
\* schema, and raises for another schema (another vector dimension)
CreateOnExisting == {"accepted", "raises"}

\* upsert lines 346-349: self.client.has_collection
UpsertCheck(w) ==
    /\ callers[w].pc = "start"
    /\ callers' = [callers EXCEPT ![w] =
                      [@ EXCEPT !.pc = IF server.exists THEN "write" ELSE "create",
                                !.checked_at = server.generation]]
    /\ UNCHANGED <<server, dropper, concurrentVars, splitter, pager>>

\* upsert lines 350-363: _create_collection, taken when the check saw no collection
UpsertCreate(w) ==
    /\ callers[w].pc = "create"
    /\ \E outcome \in CreateOnExisting :
          IF server.exists
          THEN /\ callers' = [callers EXCEPT ![w] =
                                 [@ EXCEPT !.pc = IF outcome = "raises"
                                                  THEN "raised" ELSE "write",
                                           !.create_found_existing = TRUE]]
               /\ UNCHANGED server
          ELSE /\ outcome = "accepted"
               /\ server' = [server EXCEPT !.exists = TRUE,
                                           !.generation = @ + 1]
               /\ callers' = [callers EXCEPT ![w] =
                                 [@ EXCEPT !.pc = "write", !.created = TRUE]]
    /\ UNCHANGED <<dropper, concurrentVars, splitter, pager>>

\* upsert lines 367-378: self.client.upsert; it raises when the server has no
\* such collection
UpsertWrite(w) ==
    /\ callers[w].pc = "write"
    /\ server' = IF server.exists
                  THEN [server EXCEPT !.records = @ \cup {w}]
                  ELSE server
    /\ callers' = [callers EXCEPT ![w] =
                      [@ EXCEPT !.pc = IF server.exists THEN "written" ELSE "raised",
                                !.wrote_at = server.generation]]
    /\ UNCHANGED <<dropper, concurrentVars, splitter, pager>>

\* drop_collection as the server executes it
Dropped(coll) ==
    IF coll.exists
    THEN [exists |-> FALSE, generation |-> coll.generation + 1, records |-> {}]
    ELSE coll

\* delete_collection lines 175-193: one drop_collection request
DropCollection ==
    /\ dropper.pc = "start"
    /\ server' = Dropped(server)
    /\ dropper' = [dropper EXCEPT !.pc = "done"]
    /\ UNCHANGED <<callers, concurrentVars, splitter, pager>>

\* delete_all_collection line 159: self.client.list_collections()
ListCollections ==
    /\ dropper.pc = "start"
    /\ dropper' = [pc |-> "listed", listed |-> server.exists]
    /\ UNCHANGED <<server, callers, concurrentVars, splitter, pager>>

\* delete_all_collection lines 160-163: drop_collection for each listed name
DropListed ==
    /\ dropper.pc = "listed"
    /\ server' = IF dropper.listed THEN Dropped(server) ELSE server
    /\ dropper' = [dropper EXCEPT !.pc = "done"]
    /\ UNCHANGED <<callers, concurrentVars, splitter, pager>>

\* the other variables stay as they are in the concurrent scenarios
ScenarioFrame == UNCHANGED <<vector_db, queryVars, storeVars, conv, apiVars>>

RaceInit ==
    /\ server = NoServerCollection
    /\ callers = [w \in Writers |->
                     [pc |-> "start", checked_at |-> 0, wrote_at |-> 0,
                      created |-> FALSE, create_found_existing |-> FALSE]]
    /\ dropper = [pc |-> "start", listed |-> FALSE]

(***************************************************************************)
(* Concurrent streaming queries on the shared rag_chain (core/rag_chain.py *)
(* line 299, api/query.py generate_response).  generate_response is an     *)
(* async generator: it is suspended at each of its yields, where another   *)
(* request runs, and runs without interruption between two yields.         *)
(***************************************************************************)
ConcurrentQueries == {"q1", "q2"}
\* request.model of each query
RequestModel(q) == IF q = "q1" THEN "model-1" ELSE "model-2"
\* rag_chain.py line 36: the model of the llm built at start-up
DefaultModel == "default-model"

\* generate_response line 54: yield of the status event
QueryStatus(q) ==
    /\ queries[q].pc = "idle"
    /\ queries' = [queries EXCEPT ![q].pc = "status"]
    /\ UNCHANGED llm

\* generate_response lines 57-65 and RAGChain.query lines 78-155: self.llm is
\* set to a ChatOllama of the request's model, the documents are retrieved
\* and the sources are yielded; or the query ends there (nothing retrieved,
\* or a step raised)
QuerySources(q) ==
    /\ queries[q].pc = "status"
    /\ llm' = RequestModel(q)
    /\ \E ends \in BOOLEAN :
          queries' = [queries EXCEPT ![q].pc = IF ends THEN "done" ELSE "sources"]

\* RAGChain.query lines 157-165, resumed after the sources event: line 161
\* reads self.llm and opens its stream, which is then iterated up to the
\* first non-empty fragment (yielded), the end of the stream or an exception
QueryOpenStream(q) ==
    /\ queries[q].pc = "sources"
    /\ \E fragment \in BOOLEAN :
          queries' = [queries EXCEPT
                         ![q].bound = llm,
                         ![q].pc = IF fragment THEN "streaming" ELSE "done",
                         ![q].fragments = IF fragment THEN Append(@, llm) ELSE @]
    /\ UNCHANGED llm

\* lines 161-165: the next fragment of the open stream, or its end
QueryNextFragment(q) ==
    /\ queries[q].pc = "streaming"
    /\ \E fragment \in BOOLEAN :
          /\ fragment => Len(queries[q].fragments) < MaxFrags
          /\ queries' = [queries EXCEPT
                            ![q].pc = IF fragment THEN "streaming" ELSE "done",
                            ![q].fragments = IF fragment
                                             THEN Append(@, queries[q].bound) ELSE @]
    /\ UNCHANGED llm

ConcurrentInit ==
    /\ llm = DefaultModel
    /\ queries = [q \in ConcurrentQueries |->
                     [pc |-> "idle", model |-> RequestModel(q), bound |-> None,
                      fragments |-> << >>]]

(***************************************************************************)
(* The text splitter (core/vectorizer.py lines 33-38):                      *)
(* RecursiveCharacterTextSplitter(chunk_size, chunk_overlap, length_function*)
(* = len, separators = ["\n\n", "\n", " ", ""]).split_text on a text that  *)
(* contains none of "\n\n", "\n" and " ".  The splitter then falls through *)
(* to the separator "", splits the text into its characters and merges them *)
(* (_merge_splits).  A chunk is the range of characters it holds: the       *)
(* position of its first character (from 0) and its length.                 *)
(***************************************************************************)
chunk_size == 1000
chunk_overlap == 200

\* the lengths of the texts that are split
TextLengths == {0, 1, 1000, 1001, 2500}

SplitterIdle == [pc |-> "idle"]

\* split_text is called on a text of n characters
SplitStart ==
    /\ splitter.pc = "idle"
    /\ \E n \in TextLengths :
          splitter' = [pc |-> "merging", n |-> n, i |-> 0,
                       start |-> 0, total |-> 0, docs |-> << >>]

\* _merge_splits: the condition of the `while` that drops splits from the
\* front of current_doc after a chunk was emitted (the next split has length
\* 1 and the separator length 0)
KeepPoppingToEmpty(total) == total > 0

KeepPopping(total) ==
    total > chunk_overlap \/ (total + 1 > chunk_size /\ total > 0)

\* _merge_splits, the loop body for the next character: if it does not fit,
\* the current chunk is emitted and the popping begins; otherwise it is
\* appended to current_doc
MergeSplit ==
    /\ splitter.pc = "merging"
    /\ splitter.i < splitter.n
    /\ splitter' =
          IF splitter.total + 1 > chunk_size
          THEN IF splitter.total > 0
               THEN [splitter EXCEPT
                        !.docs = Append(@, [start |-> splitter.start,
                                            len |-> splitter.total]),
                        !.pc = "popping"]
               ELSE [splitter EXCEPT !.pc = "popping"]
          ELSE [splitter EXCEPT !.total = @ + 1, !.i = @ + 1]

\* _merge_splits: one turn of the `while`, or its end followed by
\* current_doc.append(d)
PopSplit ==
    /\ splitter.pc = "popping"
    /\ splitter' =
          IF KeepPopping(splitter.total)
          THEN [splitter EXCEPT !.total = @ - 1, !.start = @ + 1]
          ELSE [splitter EXCEPT !.total = @ + 1, !.i = @ + 1, !.pc = "merging"]

\* _merge_splits after the loop: the rest of current_doc is the last chunk,
\* unless it is empty
SplitEnd ==
    /\ splitter.pc = "merging"
    /\ splitter.i = splitter.n
    /\ splitter' =
          [splitter EXCEPT
              !.docs = IF splitter.total > 0
                       THEN Append(@, [start |-> splitter.start, len |-> splitter.total])
                       ELSE @,
              !.pc = "done"]

SplitterFrame == UNCHANGED <<raceVars, concurrentVars, pager>> /\ ScenarioFrame

(***************************************************************************)
(* MilvusClient.query (vector/dbs/milvus.py lines 212-296): the paginated  *)
(* fetch.  Each self.client.query is one request; the server answers it    *)
(* with the records at positions offset, offset + 1, ... of the matching   *)
(* records, any number of them up to the requested limit, or raises.       *)
(***************************************************************************)
\* line 226
max_limit == 16383
\* lines 234-236: the limit used when the caller gives none
DefaultLimit == 16384 * 10

\* the limits a caller gives
Limits == {None, "0", "1", "5", "16383", "16384", "16385", "40000"}
LimitValue(limit) ==
    CASE limit = "0" -> 0
      [] limit = "1" -> 1
      [] limit = "5" -> 5
      [] limit = "16383" -> 16383
      [] limit = "16384" -> 16384
      [] limit = "16385" -> 16385
      [] limit = "40000" -> 40000

\* lines 228-236
EffectiveLimit(limit) == IF limit = None THEN DefaultLimit ELSE LimitValue(limit)

\* the number of records a request for `fetch` records can be answered with
PageCounts(fetch) == {0, 1, fetch - 1, fetch} \cap (0..fetch)

\* lines 251-253
CurrentFetch(remaining) == Min(max_limit, remaining)

\* line 279: offset += results_count
OffsetStuck(offset, results_count) == offset

OffsetAfter(offset, results_count) == offset + results_count

PagerIdle == [pc |-> "idle"]

\* what query returns: None, or the result built from all_results
ReturnsNone == [none |-> TRUE, pages |-> << >>]
ReturnsResults(all_results) == [none |-> FALSE, pages |-> all_results]

\* lines 212-243: has_collection, the limit, offset = 0, remaining = limit
QueryStart ==
    /\ pager.pc = "idle"
    /\ \E limit \in Limits, has_collection \in BOOLEAN :
          pager' = IF has_collection
                   THEN [pc |-> "loop", limit |-> limit, offset |-> 0,
                         remaining |-> EffectiveLimit(limit),
                         requests |-> << >>, all_results |-> << >>,
                         result |-> ReturnsNone]
                   ELSE [pc |-> "done", limit |-> limit, offset |-> 0,
                         remaining |-> EffectiveLimit(limit),
                         requests |-> << >>, all_results |-> << >>,
                         result |-> ReturnsNone]

\* lines 250-286: one turn of the loop whose request the server answers; the
\* loop ends (lines 288-289) on an empty or a short answer
QueryPage ==
    /\ pager.pc = "loop"
    /\ pager.remaining > 0
    /\ \E results_count \in PageCounts(CurrentFetch(pager.remaining)) :
          LET current_fetch == CurrentFetch(pager.remaining)
              request == [limit |-> current_fetch, offset |-> pager.offset]
              got == IF results_count = 0
                     THEN pager.all_results
                     ELSE Append(pager.all_results,
                                 [from |-> pager.offset, count |-> results_count])
          IN  pager' =
                 IF results_count = 0
                 THEN [pager EXCEPT !.requests = Append(@, request),
                                    !.pc = "done",
                                    !.result = ReturnsResults(got)]
                 ELSE [pager EXCEPT
                          !.requests = Append(@, request),
                          !.all_results = got,
                          !.remaining = @ - results_count,
                          !.offset = OffsetAfter(@, results_count),
                          !.pc = IF results_count < current_fetch THEN "done" ELSE "loop",
                          !.result = IF results_count < current_fetch
                                     THEN ReturnsResults(got) ELSE ReturnsNone]

\* lines 257-267 and 291-296: the request raises and query returns None
QueryPageRaises ==
    /\ pager.pc = "loop"
    /\ pager.remaining > 0
    /\ pager' = [pager EXCEPT
                    !.requests = Append(@, [limit |-> CurrentFetch(pager.remaining),
                                            offset |-> pager.offset]),
                    !.pc = "done",
                    !.result = ReturnsNone]

\* lines 250 and 288-289: remaining has reached 0 and the results are returned
QueryReturn ==
    /\ pager.pc = "loop"
    /\ pager.remaining <= 0
    /\ pager' = [pager EXCEPT !.pc = "done", !.result = ReturnsResults(pager.all_results)]

PagerFrame == UNCHANGED <<raceVars, concurrentVars, splitter>> /\ ScenarioFrame

QueryInit ==
    /\ pc = "idle"
    /\ stream = << >>
    /\ question = None
    /\ yielded = << >>
    /\ prompt = NoPrompt
    /\ searched = "none"
    /\ returned = << >>
    /\ docs = << >>
    /\ produced = << >>
    /\ llm_calls = 0
    /\ failure = "none"

StoreInit ==
    /\ chroma = {}
    /\ milvus = [c \in CollectionNames |-> NoCollection]
    /\ embed_calls = << >>
    /\ last = NoOp
    /\ current = [f \in Filenames |-> NoContent]
    /\ nops = 0

Init ==
    /\ vector_db \in Backends
    /\ QueryInit
    /\ StoreInit
    /\ conv = NoConversation
    /\ ApiInit
    /\ RaceInit
    /\ ConcurrentInit
    /\ splitter = SplitterIdle
    /\ pager = PagerIdle

QueryNext ==
    \/ RejectEmptyQuestion
    \/ EmitStatus
    \/ LlmInitRaises
    \/ RetrievalRaisesMilvus
    \/ SearchAbsentMilvus
    \/ RetrievalRaisesChroma
    \/ RetrieveNothing
    \/ RetrieveSome
    \/ FormatRaises
    \/ StartGeneration
    \/ NextFragment
    \/ GenerationRaises
    \/ GenerationCompletes

\* One streaming query against a backend search that may return anything.
SpecStream == Init /\ [][QueryNext]_vars

StoreNext ==
    \/ add_document
    \/ delete_document
    \/ embed_to_milvus
    \/ delete_collection
    \/ delete_all_collection

\* Ingest and delete operations on the configured backend, in any order.
SpecStore == Init /\ [][StoreNext]_vars

DeleteNext ==
    \/ add_document
    \/ delete_document
    \/ embed_to_milvus
    \/ delete_collection
    \/ delete_all_collection
    \/ delete_documents

\* The store operations together with the bulk delete endpoint.
SpecDelete == Init /\ [][DeleteNext]_vars

RaceNext ==
    \/ \E w \in Writers : UpsertCheck(w) /\ ScenarioFrame
    \/ \E w \in Writers : UpsertCreate(w) /\ ScenarioFrame
    \/ \E w \in Writers : UpsertWrite(w) /\ ScenarioFrame
    \/ DropCollection /\ ScenarioFrame
    \/ ListCollections /\ ScenarioFrame
    \/ DropListed /\ ScenarioFrame

\* Two writers and one dropper on one collection, every interleaving of their
\* requests to the server.
SpecRace == Init /\ [][RaceNext]_vars

ConcurrentNext ==
    \/ \E q \in ConcurrentQueries : QueryStatus(q) /\ UNCHANGED <<raceVars, splitter, pager>> /\ ScenarioFrame
    \/ \E q \in ConcurrentQueries : QuerySources(q) /\ UNCHANGED <<raceVars, splitter, pager>> /\ ScenarioFrame
    \/ \E q \in ConcurrentQueries : QueryOpenStream(q) /\ UNCHANGED <<raceVars, splitter, pager>> /\ ScenarioFrame
    \/ \E q \in ConcurrentQueries :
          QueryNextFragment(q) /\ UNCHANGED <<raceVars, splitter, pager>> /\ ScenarioFrame

\* Two streaming queries naming different models, every interleaving of their
\* steps between yields.
SpecConcurrentQueries == Init /\ [][ConcurrentNext]_vars

SplitterNext ==
    \/ SplitStart /\ SplitterFrame
    \/ MergeSplit /\ SplitterFrame
    \/ PopSplit /\ SplitterFrame
    \/ SplitEnd /\ SplitterFrame

\* One call of split_text on a text without separators.
SpecSplitter == Init /\ [][SplitterNext]_vars

PagerNext ==
    \/ QueryStart /\ PagerFrame
    \/ QueryPage /\ PagerFrame
    \/ QueryPageRaises /\ PagerFrame
    \/ QueryReturn /\ PagerFrame

\* One call of MilvusClient.query.  The call runs on: each step that can be
\* taken is taken (the caller's thread is not starved and the server answers
\* or raises).
SpecPager == Init /\ [][PagerNext]_vars /\ WF_vars(PagerNext)

UploadNext == upload_files

\* Upload requests of one or more files, one after the other.
SpecUpload == Init /\ [][UploadNext]_vars

ConversationNext == query_with_history

\* One conversational query with any question, history, top_k and filter.
SpecConversation == Init /\ [][ConversationNext]_vars

\* The five endpoints that validate their input, side by side.
Endpoints == {"stream", "conversation", "upload", "plain", "template"}

\* the endpoint has not been called
Idle(e) ==
    CASE e = "stream" -> pc = "idle"
      [] e = "conversation" -> conv.state = "idle"
      [] e = "upload" -> nops = 0
      [] e = "plain" -> plain.state = "idle"
      [] e = "template" -> template.state = "idle"

\* the endpoint has been called once and has answered HTTP 400 to an empty input
Rejected(e) ==
    CASE e = "stream" -> pc = "rejected"
      [] e = "conversation" -> conv.state = "done" /\ conv.status = 400
      [] e = "upload" -> nops > 0 /\ last.files = << >>
      [] e = "plain" -> plain.state = "done" /\ plain.status = 400
      [] e = "template" -> template.state = "done" /\ template.status = 400

AllIdleBut(e) == \A o \in Endpoints \ {e} : Idle(o)
AllQuietBut(e) == \A o \in Endpoints \ {e} : Idle(o) \/ Rejected(o)

\* One request to each of the five endpoints, one at a time.  A behaviour is
\* either one endpoint serving a request that passes validation while the
\* others are never called, or any number of endpoints rejecting an empty input (the
\* upload before the conversational query: the two share no state, and the
\* other order adds no case).
ApiNext ==
    \/ AllQuietBut("stream") /\ RejectEmptyQuestion
    \/ AllIdleBut("stream") /\ EmitStatus
    \/ LlmInitRaises
    \/ RetrievalRaisesMilvus
    \/ SearchAbsentMilvus
    \/ RetrievalRaisesChroma
    \/ RetrieveNothing
    \/ RetrieveSome
    \/ FormatRaises
    \/ StartGeneration
    \/ NextFragment
    \/ GenerationRaises
    \/ GenerationCompletes
    \/ AllQuietBut("conversation") /\ query_with_history
          /\ (AllIdleBut("conversation") \/ Rejected("conversation")')
    \/ AllQuietBut("upload") /\ Idle("conversation") /\ Idle("upload") /\ upload_files
          /\ (AllIdleBut("upload") \/ Rejected("upload")')
    \/ AllQuietBut("plain") /\ query_documents
          /\ (AllIdleBut("plain") \/ Rejected("plain")')
    \/ AllQuietBut("template") /\ update_prompt_template
          /\ (AllIdleBut("template") \/ Rejected("template")')

SpecApi == Init /\ [][ApiNext]_vars

(***************************************************************************)
(* Properties of input validation (checked under SpecApi).                 *)
(***************************************************************************)
WhitespaceOnly(str) == str \in {"", " "}

\* no endpoint has done more than reject an empty input
OnlyRejections == \A e \in Endpoints : Idle(e) \/ Rejected(e)

\* C21: a streaming query with a blank question is rejected with nothing
\* written, retrieved or generated; a conversational or plain query with a
\* blank question answers 400 without calling RAGChain; an update with a blank
\* template answers 400 and leaves the stored template; an upload of no file
\* answers 400 with no file processed and the collection as it was; and while
\* the endpoints have only rejected such requests, the store is empty, nothing
\* was embedded or generated and the stored template is the initial one.
C21_RejectedBeforeWork ==
    /\ (pc # "idle" /\ WhitespaceOnly(question)) =>
          /\ pc = "rejected"
          /\ stream = << >> /\ yielded = << >>
          /\ searched = "none" /\ docs = << >>
          /\ llm_calls = 0 /\ prompt = NoPrompt
    /\ (conv.state = "done" /\ WhitespaceOnly(conv.question)) =>
          /\ conv.status = 400
          /\ "call" \notin DOMAIN conv
    /\ (plain.state = "done" /\ WhitespaceOnly(plain.question)) =>
          /\ plain.status = 400
          /\ plain.query_calls = 0
    /\ (template.state = "done" /\ WhitespaceOnly(template.new_template)) =>
          /\ template.status = 400
          /\ template.update_calls = 0
          /\ prompt_template = DefaultTemplate
    /\ (last.op = "upload_files" /\ last.files = << >>) =>
          /\ last.http_status = 400
          /\ last.file_count = 0 /\ last.total_chunks = 0
          /\ chroma = last.before
          /\ embed_calls = << >>
    /\ OnlyRejections =>
          /\ chroma = {}
          /\ \A c \in CollectionNames : milvus[c] = NoCollection
          /\ \A f \in Filenames : current[f] = NoContent
          /\ embed_calls = << >>
          /\ llm_calls = 0
          /\ prompt_template = DefaultTemplate

C21_Witness == \A e \in Endpoints : Rejected(e)

(***************************************************************************)
(* Properties of ingestion (checked under SpecStore).                      *)
(***************************************************************************)
\* the last operation is an ingestion of a text with nothing to chunk
EmptyIngest ==
    /\ last.op \in {"add_document", "embed_to_milvus"}
    /\ (StripEmpty(last.content) \/ split_text(last.content) = << >>)

\* C13: every record written by embed_to_milvus carries the text of some
\* chunk k of the document together with the embedding of that same chunk,
\* whatever sub-batch it was written in, and no call to the embedding service
\* gets more texts than the sub-batch size.
C13_SubBatchPairing ==
    last.op = "embed_to_milvus" =>
        /\ \A w \in last.written :
              \E k \in 1..Len(split_text(last.content)) :
                 /\ w.text = split_text(last.content)[k]
                 /\ w.vector = Embed(split_text(last.content)[k])
        /\ \A b \in 1..Len(embed_calls) : embed_calls[b] <= SubBatch

\* C14: every record an ingestion writes has as chunk_index the 0-based
\* position of its text in the chunker's output for the document and as id
\* the chunk id of (filename, chunk_index), also when the document has more
\* chunks than one sub-batch holds.
C14_ChunkIndexIsPosition ==
    last.op \in {"add_document", "embed_to_milvus"} =>
        \A w \in last.written :
            /\ w.metadata.chunk_index \in 0..(Len(split_text(last.content)) - 1)
            /\ w.text = split_text(last.content)[w.metadata.chunk_index + 1]
            /\ w.id = generate_chunk_id(last.filename, w.metadata.chunk_index)

\* C15: an ingestion in which the embedding or the storing of a sub-batch
\* fails reports failure with chunks_added = 0 and leaves the store as it was
\* before the call: nothing an earlier sub-batch wrote remains.
C15_AllOrNothing ==
    (last.op \in {"add_document", "embed_to_milvus"} /\ ~last.success) =>
        /\ last.chunks_added = 0
        /\ chroma = IF vector_db = "chroma" THEN last.before ELSE chroma
        /\ milvus = IF vector_db = "milvus" THEN last.before ELSE milvus

\* C16: ingesting an empty or whitespace-only text, or a text the chunker
\* makes no chunk of, returns success = false and chunks_added = 0, makes no
\* call to the embedding service and leaves the store unchanged.
C16_EmptyIngestRejected ==
    EmptyIngest =>
        /\ ~last.success
        /\ last.chunks_added = 0
        /\ embed_calls = << >>
        /\ last.written = {}
        /\ chroma = IF vector_db = "chroma" THEN last.before ELSE chroma
        /\ milvus = IF vector_db = "milvus" THEN last.before ELSE milvus

\* C29: a successful ingestion returns as chunk_ids the ids of the records it
\* wrote, one per chunk and in chunk order: chunks_added ids, pairwise
\* distinct, also when the document spans more than one sub-batch.
C29_ChunkIdsComplete ==
    (last.op \in {"add_document", "embed_to_milvus"} /\ last.success) =>
        /\ Len(last.chunk_ids) = last.chunks_added
        /\ \A i \in 1..Len(last.chunk_ids) : \A j \in (i + 1)..Len(last.chunk_ids) :
              last.chunk_ids[i] # last.chunk_ids[j]
        /\ {last.chunk_ids[k] : k \in 1..Len(last.chunk_ids)} = Ids(last.written)
        /\ \A w \in last.written :
              \E k \in 1..Len(last.chunk_ids) :
                 /\ last.chunk_ids[k] = w.id
                 /\ split_text(last.content)[k] = w.text

C16_Witness ==
    /\ EmptyIngest
    /\ last.content = <<Blank>>
    /\ ~last.success
    /\ chroma \cup UNION {milvus[c].records : c \in CollectionNames} # {}

(***************************************************************************)
(* Properties of the upload (checked under SpecUpload).                    *)
(***************************************************************************)
\* the saved files of the last upload, and what uploading the i-th of them
\* alone, to the store as it was before the request, gives
LastSaved == SelectSeq(last.files, IsSaved)
Alone(i) == ProcessSaved(last.before, <<LastSaved[i]>>, 1)

RECURSIVE SumAloneChunks(_)
SumAloneChunks(n) == IF n = 0 THEN 0 ELSE SumAloneChunks(n - 1) + Alone(n).total_chunks

\* the files among the first n saved ones that are in seq, in upload order
InOrder(names, n) ==
    SelectSeq([i \in 1..n |-> LastSaved[i].filename],
              LAMBDA f : \E k \in 1..Len(names) : names[k] = f)

\* C17: in an upload that processes its files, every saved file is either in
\* processed_files or in failed_files, exactly as it is when uploaded alone
\* (a file whose parsing, embedding or storing fails is in failed_files), the
\* records stored for it are those stored when it is uploaded alone, and
\* total_chunks is the sum of the chunks the files add alone: a failing file
\* changes the outcome of no other file.
C17_PerFileIndependent ==
    (last.op = "upload_files" /\ last.http_status = 200) =>
        /\ \A i \in 1..Len(LastSaved) :
              LET f == LastSaved[i].filename
              IN  /\ (\E k \in 1..Len(last.processed_files) : last.processed_files[k] = f)
                        <=> Alone(i).processed_files = <<f>>
                  /\ (\E k \in 1..Len(last.failed_files) : last.failed_files[k] = f)
                        <=> Alone(i).failed_files = <<f>>
                  /\ LastSaved[i].kind \in {"parse_fail", "store_fail"}
                        => \E k \in 1..Len(last.failed_files) : last.failed_files[k] = f
                  /\ OfFile(chroma, f) = OfFile(Alone(i).chroma, f)
        /\ Len(last.processed_files) + Len(last.failed_files) = Len(LastSaved)
        /\ last.processed_files = InOrder(last.processed_files, Len(LastSaved))
        /\ last.failed_files = InOrder(last.failed_files, Len(LastSaved))
        /\ last.total_chunks = SumAloneChunks(Len(LastSaved))
        /\ last.file_count = Len(last.processed_files)

C17_Witness ==
    /\ last.op = "upload_files"
    /\ last.http_status = 200
    /\ Len(last.files) = 2
    /\ last.files[1].kind \in {"parse_fail", "store_fail"}
    /\ last.failed_files = <<last.files[1].filename>>
    /\ last.processed_files = <<last.files[2].filename>>
    /\ last.total_chunks = 2
    /\ last.before # {}

InSeq(x, names) == \E k \in 1..Len(names) : names[k] = x

\* C28: after an upload that returns a response, every file of the request,
\* the files that could not be saved included, is in exactly one of
\* processed_files and failed_files, file_count is the number of processed
\* files, total_chunks is the sum of the chunks the processed files added, and
\* status is 'success' exactly when a file was processed.
C28_EveryFileAccounted ==
    (last.op = "upload_files" /\ last.http_status = 200) =>
        /\ \A i \in 1..Len(last.files) :
              InSeq(last.files[i].filename, last.processed_files)
                 # InSeq(last.files[i].filename, last.failed_files)
        /\ Len(last.processed_files) + Len(last.failed_files) = Len(last.files)
        /\ last.file_count = Len(last.processed_files)
        /\ last.total_chunks = SumAloneChunks(Len(LastSaved))
        /\ (last.status = "success") <=> (last.processed_files # << >>)

(***************************************************************************)
(* Properties of the conversational query (checked under                   *)
(* SpecConversation).                                                      *)
(***************************************************************************)
\* a conversational query that passed the empty-question test has returned
Answered == conv.state = "done" /\ conv.status = 200

\* the (question, answer) pairs rendered as "Q: ... A: ..." in a text, in order
QAPositions(text) ==
    SelectSeq([i \in 1..Len(text) |-> i], LAMBDA i : text[i] = "Q: ")
QAPairs(text) ==
    [k \in 1..Len(QAPositions(text)) |->
        [question |-> text[QAPositions(text)[k] + 1],
         answer |-> text[QAPositions(text)[k] + 3]]]

\* C19: a conversational query with a non-empty history runs the normal
\* query on the enhanced question with the caller's top_k (and filter), its
\* result is the result of that query and not an error, and the result keeps
\* the caller's question under original_question.
C19_ConversationRunsQuery ==
    (Answered /\ conv.history # << >>) =>
        /\ conv.call.question = conv.enhanced_question
        /\ conv.call.top_k = conv.top_k
        /\ conv.call.filter_metadata = conv.filter_metadata
        /\ "error" \notin conv.result.keys
        /\ "original_question" \in conv.result.keys

\* C20: for a non-empty history whose turns all have a question and an
\* answer, the question handed to the normal query renders as Q:/A: pairs
\* exactly the last min(3, len(history)) turns, in their order, and ends with
\* the current question; for an empty history it is the question itself.
C20_LastThreeTurns ==
    Answered =>
        /\ conv.history = << >> => conv.call.question = <<conv.question>>
        /\ (conv.history # << >> /\ \A i \in 1..Len(conv.history) : HasBoth(conv.history[i])) =>
              LET n == Len(conv.history)
                  m == IF n < 3 THEN n ELSE 3
                  handed == conv.call.question
              IN  /\ QAPairs(handed) = [i \in 1..m |-> conv.history[n - m + i]]
                  /\ \A k \in 1..m : handed[QAPositions(handed)[k] + 2] = "[newline]A: "
                  /\ handed[Len(handed)] = conv.question
                  /\ \A k \in 1..m : QAPositions(handed)[k] < Len(handed)

C20_Witness ==
    /\ Answered
    /\ Len(conv.history) = 4
    /\ \A i \in 1..4 : HasBoth(conv.history[i])
    /\ conv.history[1] # conv.history[4]
    /\ Len(QAPairs(conv.call.question)) = 3

(***************************************************************************)
(* Properties of the streaming query (checked under SpecStream).           *)
(***************************************************************************)
Positions(events, t) == {i \in 1..Len(events) : events[i].type = t}
IsAnswer(e) == e.type = "answer"
NonEmptyText(t) == t # ""
AnswerEvents == SelectSeq(stream, IsAnswer)
AnswerPayloads == [i \in 1..Len(AnswerEvents) |-> AnswerEvents[i].answer]

\* the query retrieved at least one chunk and no step of it raised
SuccessfulQuery == pc = "done" /\ docs # << >> /\ failure = "none"

\* C1: a streaming query that retrieves at least one chunk and whose
\* generation succeeds writes exactly: one status event, one sources event,
\* zero or more answer events, one complete event, in this order, and nothing
\* of another type; in no state does an event follow a complete event.
C1_StreamOrder ==
    /\ SuccessfulQuery =>
          /\ Len(stream) >= 3
          /\ stream[1].type = "status"
          /\ stream[2].type = "sources"
          /\ stream[Len(stream)].type = "complete"
          /\ \A i \in 3..(Len(stream) - 1) : stream[i].type = "answer"
    /\ \A i \in Positions(stream, "complete") : i = Len(stream) /\ pc = "done"

C1_Witness ==
    /\ SuccessfulQuery
    /\ Len(AnswerPayloads) >= 2
    /\ Len(docs) >= 2

\* C2: when retrieval yields zero chunks the completion service is not
\* called and the stream carries the fallback answer followed by a complete
\* event with retrieved_chunks = 0.
C2_FallbackThenComplete ==
    (pc = "done" /\ docs = << >> /\ failure = "none") =>
        /\ llm_calls = 0
        /\ Len(stream) >= 2
        /\ stream[Len(stream) - 1].type = "answer"
        /\ stream[Len(stream)].type = "complete"
        /\ stream[Len(stream)].retrieved_chunks = 0

\* C3: if the completion service fails while tokens are being streamed, the
\* stream has exactly one error event and it is the last event.
C3_GenerationFailureEmitsError ==
    (pc = "done" /\ failure = "generation") =>
        /\ Cardinality(Positions(stream, "error")) = 1
        /\ stream[Len(stream)].type = "error"

\* C4: in every stream, whatever step fails, at most one error event is
\* written and no event of any type follows an error event.
C4_ErrorIsTerminal ==
    /\ Cardinality(Positions(stream, "error")) <= 1
    /\ \A i \in Positions(stream, "error") : i = Len(stream) /\ pc = "done"

C4_Witness ==
    /\ pc = "done"
    /\ failure # "none"
    /\ Positions(stream, "error") # {}

\* C5: the answer events carry exactly the non-empty fragments the completion
\* service produced, one event per fragment, in upstream order (at every
\* moment of the stream), and a generation that ends is followed by exactly
\* one complete event, after every answer event.
C5_FragmentsForwarded ==
    /\ AnswerPayloads = SelectSeq(produced, NonEmptyText)
    /\ SuccessfulQuery =>
          /\ Positions(stream, "complete") = {Len(stream)}
          /\ Positions(stream, "answer") = 3..(Len(stream) - 1)

C5_Witness ==
    /\ SuccessfulQuery
    /\ produced = <<"Hel", "lo", "lo">>
    /\ Len(AnswerPayloads) = 3

\* C10: on both backends, for every raw distance the backend can return, the
\* similarity_score of each retrieved chunk and of each source is in [0,1].
C10_ScoreInUnitInterval ==
    /\ \A i \in 1..Len(docs) : InUnitInterval(docs[i].similarity_score)
    /\ \A k \in 1..Len(yielded) :
          yielded[k].type = "sources" =>
             \A i \in 1..Len(yielded[k].data) :
                InUnitInterval(yielded[k].data[i].similarity_score)

RatEq(r, s) == r.n * s.d = s.n * r.d

\* C11: the similarity_score of each retrieved chunk equals (d + 1) / 2 on
\* the Milvus backend, d the raw score of the hit, and 1 - d on the Chroma
\* backend, d the raw cosine distance; an identical vector (raw score 1,
\* distance 0) so gets the score 1.
C11_ScoreFormula ==
    /\ Len(docs) = Len(returned)
    /\ \A i \in 1..Len(docs) :
          LET d == returned[i].distance
          IN  /\ vector_db = "milvus" =>
                     RatEq(docs[i].similarity_score, Rat(d.n + d.d, 2 * d.d))
              /\ vector_db = "chroma" =>
                     RatEq(docs[i].similarity_score, Rat(d.d - d.n, d.d))

\* C12: the retrieved chunks are in descending similarity_score order, the
\* rank of each is its 1-based position (so the ranks are 1..n, distinct), the
\* sources carry the same ranks, and the chunks stand in the order in which
\* the backend returned their hits, so chunks of equal score keep it.
C12_RankedDescending ==
    /\ Len(docs) = Len(returned)
    /\ \A i \in 1..Len(docs) :
          /\ docs[i].rank = i
          /\ docs[i].content = returned[i].text
          /\ \A j \in (i + 1)..Len(docs) :
                RatLeq(docs[j].similarity_score, docs[i].similarity_score)
    /\ \A k \in 1..Len(yielded) :
          yielded[k].type = "sources" =>
             \A i \in 1..Len(yielded[k].data) : yielded[k].data[i].rank = i

C12_Witness ==
    /\ SuccessfulQuery
    /\ Len(docs) >= 2
    /\ docs[1].similarity_score = docs[2].similarity_score
    /\ docs[1].content # docs[2].content

\* C18: a search that the backend answers for a collection that is empty or
\* does not exist gives the query no chunk and no failure: no step of the
\* query raises and no error is yielded or written.
C18_EmptySearchIsNotAnError ==
    (pc = "done" /\ searched \in {"absent", "empty"}) =>
        /\ docs = << >>
        /\ failure = "none"
        /\ \A k \in 1..Len(yielded) : yielded[k] # ErrorDict
        /\ Positions(stream, "error") = {}

\* C24: in every state of a query, each sources item and sources event lists
\* exactly one SourceInfo per hit the backend returned, the i-th one carrying
\* rank i and the i-th hit's text and filename; once the prompt is formatted
\* its context has one part per hit, the i-th labelled i with the i-th hit's
\* text; and every complete event reports the number of hits.
C24_NoHitDropped ==
    /\ \A k \in 1..Len(yielded) :
          yielded[k].type = "sources" =>
              /\ Len(yielded[k].data) = Len(returned)
              /\ \A i \in 1..Len(returned) :
                    /\ yielded[k].data[i].rank = i
                    /\ yielded[k].data[i].content_preview = returned[i].text
                    /\ yielded[k].data[i].filename = returned[i].filename
    /\ \A k \in Positions(stream, "sources") :
          /\ Len(stream[k].sources) = Len(returned)
          /\ \A i \in 1..Len(returned) :
                /\ stream[k].sources[i].rank = i
                /\ stream[k].sources[i].content_preview = returned[i].text
    /\ llm_calls > 0 =>
          /\ Len(prompt.context) = Len(returned)
          /\ \A i \in 1..Len(returned) :
                /\ prompt.context[i].label = i
                /\ prompt.context[i].content = returned[i].text
    /\ \A k \in Positions(stream, "complete") :
          stream[k].retrieved_chunks = Len(returned)

C24_Witness ==
    /\ SuccessfulQuery
    /\ Len(returned) = MaxHits
    /\ returned[1].text # returned[2].text
    /\ Len(prompt.context) = MaxHits
    /\ Positions(stream, "sources") # {}
    /\ Positions(stream, "complete") # {}

(***************************************************************************)
(* Properties of the vector store (checked under SpecStore).               *)
(***************************************************************************)
MilvusRecords(colls) == UNION {colls[c].records : c \in CollectionNames}

\* the records of the configured backend, now and before the last operation
AllRecords == IF vector_db = "chroma" THEN chroma ELSE MilvusRecords(milvus)
RecordsBefore == IF vector_db = "chroma" THEN last.before ELSE MilvusRecords(last.before)

IsIngest == last.op \in {"add_document", "embed_to_milvus"}

\* C6: after any sequence of ingest and delete operations, for every filename
\* in the store, the number of records with that filename equals the
\* chunk_count recorded in each of those records.
C6_CountMatchesChunkCount ==
    \A r \in AllRecords :
        Cardinality(OfFile(AllRecords, r.metadata.filename)) = r.metadata.chunk_count

\* C7: every record's id is the chunk id of its (filename, chunk_index), and
\* ingesting again the content that was last ingested for a filename leaves
\* the set of record ids and the record count of that filename as they were.
C7_IdempotentIds ==
    /\ \A r \in AllRecords :
          r.id = generate_chunk_id(r.metadata.filename, r.metadata.chunk_index)
    /\ (IsIngest /\ last.repeat) =>
          /\ Ids(OfFile(AllRecords, last.filename)) = Ids(OfFile(RecordsBefore, last.filename))
          /\ Cardinality(OfFile(AllRecords, last.filename))
                = Cardinality(OfFile(RecordsBefore, last.filename))

C7_Witness ==
    /\ IsIngest
    /\ last.repeat
    /\ last.success
    /\ last.chunks_added >= 2
    /\ Cardinality(OfFile(AllRecords, last.filename)) >= 2

\* C8: after a successful ingestion, for every record it wrote there is
\* exactly one record with that id in the collection and it has the text,
\* vector and metadata of that write.
C8_WriteOverwrites ==
    (IsIngest /\ last.success) =>
        \A w \in last.written : {r \in AllRecords : r.id = w.id} = {w}

\* C9: delete_document(f) leaves every record of another filename unchanged
\* and, unless the backend call raises (the store is then unchanged and a
\* failure is returned), leaves no record whose filename is f.
C9_DeleteByFilename ==
    last.op = "delete_document" =>
        /\ {r \in chroma : r.metadata.filename # last.filename}
              = {r \in last.before : r.metadata.filename # last.filename}
        /\ ~last.raised => OfFile(chroma, last.filename) = {}
        /\ last.raised => (chroma = last.before /\ ~last.success)
        /\ last.deleted_count
              = Cardinality(OfFile(last.before, last.filename) \ chroma)

C9_Witness ==
    /\ last.op = "delete_document"
    /\ last.success
    /\ last.deleted_count >= 2
    /\ \E r \in chroma : r.metadata.filename # last.filename

(***************************************************************************)
(* Properties of the delete operations (checked under SpecDelete).         *)
(***************************************************************************)
\* the filenames a bulk delete was asked to remove
AskedNames == Range(last.request.document_ids)
IsListDelete == last.op = "delete_documents" /\ ~last.request.delete_all

\* C25: a delete_document or delete_collection that reports success leaves no
\* record of its filename; a list delete with status "success" leaves no
\* record of any filename of its list, and one that removed some records and
\* left a record of a listed filename has status "partial";
\* delete_all_collection reports success only with no collection left.
C25_DeleteAllOrNothing ==
    /\ (last.op = "delete_document" /\ last.success) =>
          OfFile(chroma, last.filename) = {}
    /\ (last.op = "delete_collection" /\ last.success) =>
          ~milvus[CollectionName(last.filename)].exists
    /\ (IsListDelete /\ last.status = "success") =>
          \A f \in AskedNames : OfFile(chroma, f) = {}
    /\ (IsListDelete /\ chroma # last.before
            /\ \E f \in AskedNames : OfFile(chroma, f) # {}) =>
          /\ last.status = "partial"
          /\ last.failed_deletions # << >>
    /\ (last.op = "delete_all_collection" /\ last.success) =>
          \A c \in CollectionNames : ~milvus[c].exists
    /\ (last.op = "delete_all_collection"
            /\ milvus # last.before
            /\ \E c \in CollectionNames : milvus[c].exists) =>
          ~last.success

C25_Witness ==
    /\ IsListDelete
    /\ last.status = "partial"
    /\ chroma # last.before
    /\ \E f \in AskedNames : OfFile(chroma, f) # {}

C22_StructuralOpsSerialized ==
    \A w \in Writers :
        /\ ~callers[w].create_found_existing
        /\ callers[w].pc \in {"written", "raised"} =>
              callers[w].wrote_at
                 = callers[w].checked_at + (IF callers[w].created THEN 1 ELSE 0)

\* C23: under every interleaving of two streaming queries that name different
\* models, every answer fragment of a query is generated by the model named
\* in that query's request.
C23_OwnModelGenerates ==
    \A q \in ConcurrentQueries :
        \A i \in 1..Len(queries[q].fragments) :
            queries[q].fragments[i] = queries[q].model

(***************************************************************************)
(* Properties of the text splitter (checked under SpecSplitter).           *)
(***************************************************************************)
\* split_text has returned the chunks of the text of 2500 characters
Split2500 == splitter.pc = "done" /\ splitter.n = 2500

\* the chunks are non-empty, at most chunk_size long, in reading order up to
\* the end of the text, and each one after the first begins with the last
\* chunk_overlap characters of the one before
ChunksWellFormed ==
    /\ \A k \in 1..Len(splitter.docs) :
          splitter.docs[k].len >= 1 /\ splitter.docs[k].len <= chunk_size
    /\ splitter.docs[1].start = 0
    /\ splitter.docs[Len(splitter.docs)].start + splitter.docs[Len(splitter.docs)].len
          = splitter.n
    /\ \A k \in 2..Len(splitter.docs) :
          /\ splitter.docs[k].start > splitter.docs[k - 1].start
          /\ splitter.docs[k].start
                = splitter.docs[k - 1].start + splitter.docs[k - 1].len - chunk_overlap

\* C26 as stated: the text of 2500 characters is split into exactly 4 chunks,
\* each non-empty and at most 1000 characters, in reading order, each after
\* the first beginning with the last 200 characters of the one before.
C26_FourChunks ==
    Split2500 => (Len(splitter.docs) = 4 /\ ChunksWellFormed)

\* C26, amended: the text of 2500 characters is split into exactly 3 chunks
\* (of 1000, 1000 and 900 characters), each non-empty and at most 1000
\* characters, in reading order, each after the first beginning with the last
\* 200 characters of the one before.
C26_ThreeChunks ==
    Split2500 =>
        /\ Len(splitter.docs) = 3
        /\ ChunksWellFormed
        /\ [k \in 1..3 |-> splitter.docs[k].len] = <<1000, 1000, 900>>

C26_Witness == Split2500 /\ Len(splitter.docs) >= 2

(***************************************************************************)
(* Properties of MilvusClient.query (checked under SpecPager).             *)
(***************************************************************************)
RECURSIVE CountUpTo(_, _)
\* the number of records in the first k answers
CountUpTo(pages, k) == IF k = 0 THEN 0 ELSE CountUpTo(pages, k - 1) + pages[k].count

\* the number of records query returns (None: none)
Returned == CountUpTo(pager.result.pages, Len(pager.result.pages))

\* in every state of a call: each request asks for at most 16383 records,
\* each request's offset is the number of records received before it, the
\* answers kept are consecutive ranges from position 0 (none twice, none
\* skipped), and no more than `limit` records are received or returned
PaginationSound ==
    pager.pc # "idle" =>
        /\ \A k \in 1..Len(pager.requests) :
              /\ pager.requests[k].limit >= 1
              /\ pager.requests[k].limit <= 16383
        /\ \A k \in 1..Len(pager.all_results) :
              /\ pager.all_results[k].from = CountUpTo(pager.all_results, k - 1)
              /\ pager.requests[k].offset = pager.all_results[k].from
        /\ pager.offset = CountUpTo(pager.all_results, Len(pager.all_results))
        /\ pager.offset <= EffectiveLimit(pager.limit)
        /\ Returned <= EffectiveLimit(pager.limit)
        /\ Len(pager.requests) <= 11

\* C27: every call of MilvusClient.query ends, whatever the limit and the
\* answers of the server, and in every state of it the pagination is sound
\* (at most 16383 records per request, offsets advanced by what was received,
\* at most `limit` records returned).
C27_PaginationTerminates ==
    /\ []PaginationSound
    /\ <>(pager.pc = "done")

C27_Witness ==
    /\ pager.pc = "done"
    /\ pager.limit = None
    /\ Len(pager.requests) >= 3
    /\ ~pager.result.none
    /\ Returned > 2 * 16383

====
